---------------------------- MODULE Spec2Model ----------------------------
(***************************************************************************)
(* neuronbridge_lib.py: the JACS-style UID generator (generate_jacs_uid)   *)
(* and the paginated S3 listing generator (get_all_s3_objects).            *)
(*                                                                         *)
(* Python values are modelled as follows.  An optional value is a sequence *)
(* of length at most one: None is << >> and the value v is << v >>.  A      *)
(* dict is a function from its keys.  A dotted address string is the       *)
(* sequence of its characters.  Python integers are unbounded, so no       *)
(* width is modelled; the clock is kept as the small integer               *)
(* int(time.time()*1000) - current_time_offset, because the offset itself  *)
(* (921700000000) is beyond the integers of the model checker.             *)
(***************************************************************************)
EXTENDS Integers, Sequences, FiniteSets, TLC

VARIABLES
    \* ---- environment of generate_jacs_uid
    now,                \* what int(time.time()*1000) - current_time_offset reads
    hostname_res,       \* outcome of gethostbyname(gethostname())
    localhost_res,      \* outcome of gethostbyname('localhost')
    \* ---- one call of generate_jacs_uid
    upc,                \* position of the call
    deployment_context,
    last_uid,
    current_index,
    ipa,
    ip_component,
    time_component,     \* the reading of line 117, before the shift
    next_uid,
    printed,            \* the diagnostic of line 127 was printed
    \* ---- observations of the call
    computations,       \* candidates computed by this call (line 119)
    collisions,         \* candidates discarded by line 121
    slept,              \* the branch of lines 123-125 was taken
    readings_positive,  \* every reading of this call was later than the offset
    results,            \* values returned by the calls of a chain
    \* ---- environment of get_all_s3_objects
    pages,              \* the responses the listing service serves, in order
    base_kwargs,
    \* ---- one generator object of get_all_s3_objects
    gstate,             \* created / running / suspended / done / failed / closed
    gpc,                \* where a running generator is: request / yield / truncated
    continuation_token,
    response,
    pos,                \* entries of the current response already yielded
    \* ---- observations of the consumer and of the service
    requests,           \* the list_kwargs of every list_objects_v2 call
    served,             \* number of responses returned
    raised_at,          \* the request the service answered with an error, or 0
    yielded,            \* entries received by the consumer
    pulls,              \* next() calls made on the live generator
    late_pulls,         \* next() calls made on the finished generator (0 or 1: one or more)
    outcomes,           \* what each next() call ended with
    pull_at_request     \* for each request, the pull during which it was issued

uidVars == << now, hostname_res, localhost_res, upc, deployment_context, last_uid,
              current_index, ipa, ip_component, time_component, next_uid, printed,
              computations, collisions, slept, readings_positive, results >>

listVars == << pages, base_kwargs, gstate, gpc, continuation_token, response, pos,
               requests, served, raised_at, yielded, pulls, late_pulls, outcomes,
               pull_at_request >>

vars == << uidVars, listVars >>

----------------------------------------------------------------------------
(* Python values *)

None == << >>

Some(v) == << v >>

\* truth value of an optional integer: None and 0 are false
TruthyInt(x) == x # None /\ x[1] # 0

\* truth value of an optional string: None and "" are false
TruthyStr(x) == x # None /\ x[1] # ""

\* d.get(k, default)
Get(d, k, default) == IF k \in DOMAIN d THEN d[k] ELSE default

\* x << n on unbounded integers
ShiftLeft(x, n) == x * (2 ^ n)

Min(a, b) == IF a < b THEN a ELSE b

----------------------------------------------------------------------------
(* generate_jacs_uid: constants and bounds *)

max_tries == 1023

\* largest reading of the clock, in milliseconds after current_time_offset
MaxTime == 2

TimeComponents == 0 .. MaxTime

\* calls in a chain
MaxCalls == 3

\* 0 and 15 are the ends of the 4-bit field, 2 is the default, 16 does not fit
DeploymentContexts == {0, 2, 15, 16}

Fail == << >>

Loopback == << "1", "2", "7", ".", "0", ".", "0", ".", "1" >>

HostAddresses ==
    { << "1", "0", ".", "0", ".", "0", ".", "0" >>,
      << "1", "9", "2", ".", "1", "6", "8", ".", "1", ".", "1", "7" >>,
      << "1", "0", ".", "1", ".", "2", ".", "2", "5", "5" >> }

----------------------------------------------------------------------------
(* generate_jacs_uid: helpers *)

DigitValue(c) ==
    CASE c = "0" -> 0 [] c = "1" -> 1 [] c = "2" -> 2 [] c = "3" -> 3
      [] c = "4" -> 4 [] c = "5" -> 5 [] c = "6" -> 6 [] c = "7" -> 7
      [] c = "8" -> 8 [] c = "9" -> 9

\* int(s) of a string of decimal digits
RECURSIVE ParseInt(_)
ParseInt(s) ==
    IF s = << >> THEN 0
    ELSE 10 * ParseInt(SubSeq(s, 1, Len(s) - 1)) + DigitValue(s[Len(s)])

\* s.split('.')[-1]
RECURSIVE LastField(_)
LastField(s) ==
    IF s = << >> THEN << >>
    ELSE IF s[Len(s)] = "." THEN << >>
    ELSE Append(LastField(SubSeq(s, 1, Len(s) - 1)), s[Len(s)])

\* s.split('.')[0]: what a slip of the index would take
RECURSIVE FirstField(_)
FirstField(s) ==
    IF s = << >> THEN << >>
    ELSE IF s[1] = "." THEN << >>
    ELSE << s[1] >> \o FirstField(SubSeq(s, 2, Len(s)))

\* the host component taken from the first octet instead of the last
HostComponentFirstOctet(address) == ParseInt(FirstField(address)) % 256

\* line 114: int(ipa.split('.')[-1]) & 0xFF
HostComponent(address) == ParseInt(LastField(address)) % 256

\* the packing without the retry index
JacsUidIndexDropped(tc, index, dc, ip) == ShiftLeft(tc, 22) + ShiftLeft(dc, 8) + ip

\* the packing with the retry index shifted onto the deployment context
JacsUidIndexShift8(tc, index, dc, ip) ==
    ShiftLeft(tc, 22) + ShiftLeft(index, 8) + ShiftLeft(dc, 8) + ip

\* lines 118-119
JacsUid(tc, index, dc, ip) ==
    ShiftLeft(tc, 22) + ShiftLeft(index, 12) + ShiftLeft(dc, 8) + ip

\* the comparison with last_uid left out
CollisionIgnored(last, candidate) == FALSE

\* line 120: last_uid and (last_uid == next_uid)
Collision(last, candidate) == TruthyInt(last) /\ last = Some(candidate)

\* line 116: (current_index <= max_tries) and not next_uid
LoopCondition == current_index <= max_tries /\ ~TruthyInt(next_uid)

\* the address this host resolves to, when it resolves to one
HostAddress ==
    IF hostname_res # Fail THEN hostname_res
    ELSE IF localhost_res # Fail THEN localhost_res
    ELSE Loopback

\* the values a caller may hand in as last_uid: nothing, zero, or an
\* identifier an earlier call on this host could have produced, under any
\* deployment context
LastUids ==
    {None, Some(0)} \cup
    { Some(JacsUid(t, i, dc, HostComponent(HostAddress))) :
        t \in TimeComponents, i \in 0 .. 1, dc \in DeploymentContexts }

----------------------------------------------------------------------------
(* generate_jacs_uid: the call *)

\* lines 98, 106-108: the parameters are bound and the locals initialised
Enter(dc, lu) ==
    /\ deployment_context' = dc
    /\ last_uid' = lu
    /\ current_index' = 0
    /\ ipa' = None
    /\ ip_component' = 0
    /\ time_component' = 0
    /\ next_uid' = None
    /\ printed' = FALSE
    /\ computations' = 0
    /\ collisions' = 0
    /\ slept' = FALSE
    /\ readings_positive' = TRUE
    /\ upc' = "resolve"
    /\ UNCHANGED << now, hostname_res, localhost_res, listVars >>

\* a call with any deployment context and any last_uid
Call ==
    /\ upc = "idle"
    /\ \E dc \in DeploymentContexts, lu \in LastUids : Enter(dc, lu)
    /\ results' = << >>

\* a call of a chain: the first as generate_jacs_uid(dc), each later one with
\* the same deployment context and the previous result as last_uid
CallChained ==
    /\ upc \in {"idle", "returned"}
    /\ Len(results) < MaxCalls
    /\ IF results = << >>
       THEN \E dc \in DeploymentContexts : Enter(dc, None)
       ELSE Enter(deployment_context, Some(results[Len(results)]))
    /\ UNCHANGED results

\* lines 109-115.  The fallback of line 113 is outside the try block: when it
\* fails too, its exception leaves the call.
Resolve ==
    /\ upc = "resolve"
    /\ IF hostname_res # Fail
       THEN /\ ipa' = Some(hostname_res)
            /\ ip_component' = HostComponent(hostname_res)
            /\ upc' = "loop"
       ELSE IF localhost_res # Fail
       THEN /\ ipa' = Some(localhost_res)
            /\ ip_component' = HostComponent(localhost_res)
            /\ upc' = "loop"
       ELSE /\ upc' = "raised"
            /\ UNCHANGED << ipa, ip_component >>
    /\ next_uid' = None
    /\ UNCHANGED << now, hostname_res, localhost_res, deployment_context, last_uid,
                    current_index, time_component, printed, computations,
                    collisions, slept, readings_positive, results, listVars >>

\* lines 116-125: one pass through the body of the while loop
LoopIter ==
    /\ upc = "loop"
    /\ LoopCondition
    /\ LET candidate == JacsUid(now, current_index, deployment_context, ip_component)
           collide == Collision(last_uid, candidate)
           uid == IF collide THEN None ELSE Some(candidate)
           index == IF collide THEN current_index + 1 ELSE current_index
           sleep == ~TruthyInt(uid) /\ index > max_tries
       IN /\ time_component' = now
          /\ next_uid' = uid
          /\ current_index' = IF sleep THEN 0 ELSE index
          /\ slept' = (slept \/ sleep)
          /\ collisions' = IF collide THEN collisions + 1 ELSE collisions
          \* time.sleep(0.5): the wall clock reads anything afterwards
          /\ IF sleep THEN now' \in TimeComponents ELSE now' = now
    /\ computations' = Min(computations + 1, max_tries + 2)
    /\ readings_positive' = (readings_positive /\ now > 0)
    /\ UNCHANGED << hostname_res, localhost_res, upc, deployment_context, last_uid,
                    ipa, ip_component, printed, results, listVars >>

\* lines 126-129.  The module never imports sys, so line 128 raises NameError
\* after the diagnostic is printed.
Exit ==
    /\ upc = "loop"
    /\ ~LoopCondition
    /\ IF ~TruthyInt(next_uid)
       THEN /\ printed' = TRUE
            /\ upc' = "name_error"
            /\ UNCHANGED results
       ELSE /\ upc' = "returned"
            /\ results' = Append(results, next_uid[1])
            /\ UNCHANGED printed
    /\ UNCHANGED << now, hostname_res, localhost_res, deployment_context, last_uid,
                    current_index, ipa, ip_component, time_component, next_uid,
                    computations, collisions, slept, readings_positive, listVars >>

\* the wall clock moves between two readings of the call, forwards or
\* backwards (a move that no later reading of the call sees is left out)
ClockStep ==
    /\ upc = "loop"
    /\ LoopCondition
    /\ \E t \in TimeComponents \ {now} : now' = t
    /\ UNCHANGED << hostname_res, localhost_res, upc, deployment_context, last_uid,
                    current_index, ipa, ip_component, time_component, next_uid,
                    printed, computations, collisions, slept, readings_positive,
                    results, listVars >>

----------------------------------------------------------------------------
(* get_all_s3_objects: constants and bounds *)

MaxKeys == 1000

\* responses the service holds
MaxPages == 3

\* entries of one response
MaxEntries == 2

BaseKwargs ==
    { [Bucket |-> "janelia-ppp-match-prod"],
      [Bucket |-> "janelia-ppp-match-prod", Prefix |-> "JRC2018_Unisex_20x_HR/"] }

\* the j-th entry of the k-th response
Entry(k, j) == << k, j >>

\* A response of list_objects_v2.  n < 0: no Contents key (what S3 sends for
\* an empty page), otherwise Contents holds n entries.  tok = 0: no
\* NextContinuationToken key, 1: an empty one, 2: a token naming the page.
Page(k, n, truncated, tok) ==
    (IF n < 0 THEN << >> ELSE "Contents" :> [j \in 1 .. n |-> Entry(k, j)])
    @@ (IF truncated = 0 THEN << >> ELSE "IsTruncated" :> (truncated = 2))
    @@ (IF tok = 0 THEN << >>
        ELSE "NextContinuationToken" :> (IF tok = 1 THEN "" ELSE ToString(k)))

\* the responses that can stand k-th in a listing and say it is truncated
TruncatedPages(k) ==
    { Page(k, n, 2, tok) : n \in 0 .. MaxEntries, tok \in 0 .. 2 }

\* the responses that can stand k-th and end a listing: they say it is not
\* truncated, or say nothing at all
FinalPages(k) ==
    { Page(k, n, 1, 0) : n \in -1 .. MaxEntries } \cup { Page(k, -1, 0, 0) }

RECURSIVE TruncatedPrefixes(_)
TruncatedPrefixes(k) ==
    IF k = 0 THEN { << >> }
    ELSE { Append(p, q) : p \in TruncatedPrefixes(k - 1), q \in TruncatedPages(k) }

\* The listings: every response but the last says it is truncated.
Listings ==
    UNION { { Append(p, q) : p \in TruncatedPrefixes(n - 1), q \in FinalPages(n) } :
            n \in 1 .. MaxPages }

----------------------------------------------------------------------------
(* get_all_s3_objects: helpers *)

\* d.get(k) of a string value: None when the key is missing
GetOpt(d, k) == IF k \in DOMAIN d THEN Some(d[k]) ELSE None

\* line 27: response.get('Contents', [])
Contents(resp) == Get(resp, "Contents", << >>)

\* the truncation flag ignored: the listing stops after one response
TruncatedNever(resp) == FALSE

\* line 28: the truth value of response.get('IsTruncated'); a missing key
\* gives None, which is false
Truncated(resp) == Get(resp, "IsTruncated", FALSE)

\* the next token never captured
NextTokenDropped(resp) == None

\* line 30: response.get('NextContinuationToken')
NextToken(resp) == GetOpt(resp, "NextContinuationToken")

\* lines 23-25: dict(MaxKeys=1000, **base_kwargs), then the token when it is
\* true (an assignment, so it would replace a key of that name)
ListKwargs(token) ==
    LET list_kwargs == ("MaxKeys" :> MaxKeys) @@ base_kwargs
    IN IF TruthyStr(token)
       THEN ("ContinuationToken" :> token[1]) @@ list_kwargs
       ELSE list_kwargs

\* only the first entry of a response delivered
MoreToYieldFirstOnly == pos < Min(1, Len(Contents(response)))

\* line 27: yield from has an entry left to deliver
MoreToYield == pos < Len(Contents(response))

----------------------------------------------------------------------------
(* get_all_s3_objects: the generator and its consumer *)

\* next(gen) on a generator that has not finished: the body runs from its
\* start (line 21) or from the yield it is suspended at
Pull ==
    /\ gstate \in {"created", "suspended"}
    /\ gstate' = "running"
    /\ gpc' = IF gstate = "created" THEN "request" ELSE "yield"
    /\ continuation_token' = IF gstate = "created" THEN None ELSE continuation_token
    /\ pulls' = pulls + 1
    /\ UNCHANGED << pages, base_kwargs, response, pos, requests, served, raised_at,
                    yielded, late_pulls, outcomes, pull_at_request, uidVars >>

\* lines 23-26, the service answering with its next response
ListOk ==
    /\ gstate = "running"
    /\ gpc = "request"
    /\ served < Len(pages)
    /\ requests' = Append(requests, ListKwargs(continuation_token))
    /\ pull_at_request' = Append(pull_at_request, pulls)
    /\ response' = pages[served + 1]
    /\ served' = served + 1
    /\ pos' = 0
    /\ gpc' = "yield"
    /\ UNCHANGED << pages, base_kwargs, gstate, continuation_token, raised_at,
                    yielded, pulls, late_pulls, outcomes, uidVars >>

\* the exception of list_objects_v2 caught and the listing ended quietly
ListErrorSwallowed ==
    /\ gstate = "running"
    /\ gpc = "request"
    /\ requests' = Append(requests, ListKwargs(continuation_token))
    /\ pull_at_request' = Append(pull_at_request, pulls)
    /\ raised_at' = Len(requests) + 1
    /\ gstate' = "done"
    /\ outcomes' = Append(outcomes, "stop")
    /\ UNCHANGED << pages, base_kwargs, gpc, continuation_token, response, pos,
                    served, yielded, pulls, late_pulls, uidVars >>

\* lines 23-26, list_objects_v2 raising: nothing catches the exception, so
\* it leaves the generator through the next() call in progress
ListError ==
    /\ gstate = "running"
    /\ gpc = "request"
    /\ requests' = Append(requests, ListKwargs(continuation_token))
    /\ pull_at_request' = Append(pull_at_request, pulls)
    /\ raised_at' = Len(requests) + 1
    /\ gstate' = "failed"
    /\ outcomes' = Append(outcomes, "error")
    /\ UNCHANGED << pages, base_kwargs, gpc, continuation_token, response, pos,
                    served, yielded, pulls, late_pulls, uidVars >>

\* line 27: the next entry of the response is yielded and the generator
\* is suspended
YieldEntry ==
    /\ gstate = "running"
    /\ gpc = "yield"
    /\ MoreToYield
    /\ yielded' = Append(yielded, Contents(response)[pos + 1])
    /\ pos' = pos + 1
    /\ gstate' = "suspended"
    /\ outcomes' = Append(outcomes, "entry")
    /\ UNCHANGED << pages, base_kwargs, gpc, continuation_token, response, requests,
                    served, raised_at, pulls, late_pulls, pull_at_request, uidVars >>

\* lines 28-30, once yield from has run out of entries
PageEnd ==
    /\ gstate = "running"
    /\ gpc = "yield"
    /\ ~MoreToYield
    /\ IF ~Truncated(response)
       THEN /\ gstate' = "done"
            /\ outcomes' = Append(outcomes, "stop")
            /\ UNCHANGED << gpc, continuation_token >>
       ELSE /\ continuation_token' = NextToken(response)
            /\ gpc' = "request"
            /\ UNCHANGED << gstate, outcomes >>
    /\ UNCHANGED << pages, base_kwargs, response, pos, requests, served, raised_at,
                    yielded, pulls, late_pulls, pull_at_request, uidVars >>

\* the consumer stops pulling and drops the generator
Abandon ==
    /\ gstate \in {"created", "suspended"}
    /\ gstate' = "closed"
    /\ UNCHANGED << pages, base_kwargs, gpc, continuation_token, response, pos,
                    requests, served, raised_at, yielded, pulls, late_pulls,
                    outcomes, pull_at_request, uidVars >>

\* next(gen) on a generator that returned, raised or was closed: StopIteration
PullFinished ==
    /\ gstate \in {"done", "failed", "closed"}
    /\ late_pulls' = 1
    /\ outcomes' = IF late_pulls = 0 THEN Append(outcomes, "stop") ELSE outcomes
    /\ UNCHANGED << pages, base_kwargs, gstate, gpc, continuation_token, response,
                    pos, requests, served, raised_at, yielded, pulls,
                    pull_at_request, uidVars >>

ListInitStub ==
    /\ pages = << >>
    /\ base_kwargs = << >>
    /\ gstate = "created"
    /\ gpc = "request"
    /\ continuation_token = None
    /\ response = << >>
    /\ pos = 0
    /\ requests = << >>
    /\ served = 0
    /\ raised_at = 0
    /\ yielded = << >>
    /\ pulls = 0
    /\ late_pulls = 0
    /\ outcomes = << >>
    /\ pull_at_request = << >>

----------------------------------------------------------------------------
(* specifications *)

UidInitStub ==
    /\ now = 0
    /\ hostname_res = Fail
    /\ localhost_res = Loopback
    /\ upc = "idle"
    /\ deployment_context = 2
    /\ last_uid = None
    /\ current_index = 0
    /\ ipa = None
    /\ ip_component = 0
    /\ time_component = 0
    /\ next_uid = None
    /\ printed = FALSE
    /\ computations = 0
    /\ collisions = 0
    /\ slept = FALSE
    /\ readings_positive = TRUE
    /\ results = << >>

UidInit ==
    /\ now \in TimeComponents
    /\ hostname_res \in HostAddresses \cup {Fail}
    \* the loopback lookup is made only after the hostname lookup has failed
    /\ localhost_res \in IF hostname_res = Fail THEN {Loopback, Fail} ELSE {Loopback}
    /\ upc = "idle"
    /\ deployment_context = 2
    /\ last_uid = None
    /\ current_index = 0
    /\ ipa = None
    /\ ip_component = 0
    /\ time_component = 0
    /\ next_uid = None
    /\ printed = FALSE
    /\ computations = 0
    /\ collisions = 0
    /\ slept = FALSE
    /\ readings_positive = TRUE
    /\ results = << >>

InitUid == UidInit /\ ListInitStub

NextUid == Call \/ Resolve \/ LoopIter \/ Exit \/ ClockStep

\* single calls with arbitrary arguments under a clock that may move
SpecUid == InitUid /\ [][NextUid]_vars

NextChain == CallChained \/ Resolve \/ LoopIter \/ Exit

\* a chain of calls with the clock held and the host fixed
SpecChain == InitUid /\ [][NextChain]_vars

InitList ==
    /\ UidInitStub
    /\ pages \in Listings
    /\ base_kwargs \in BaseKwargs
    /\ gstate = "created"
    /\ gpc = "request"
    /\ continuation_token = None
    /\ response = << >>
    /\ pos = 0
    /\ requests = << >>
    /\ served = 0
    /\ raised_at = 0
    /\ yielded = << >>
    /\ pulls = 0
    /\ late_pulls = 0
    /\ outcomes = << >>
    /\ pull_at_request = << >>

NextList ==
    Pull \/ ListOk \/ ListError \/ YieldEntry \/ PageEnd \/ Abandon \/ PullFinished

\* one generator object, its consumer and a listing service
SpecList == InitList /\ [][NextList]_vars

----------------------------------------------------------------------------
(* generate_jacs_uid: properties *)

\* C1: for every deployment context, every last_uid handed in and every
\* behaviour of the clock, the value a call returns differs from last_uid.
UidNeverEqualsLast ==
    upc = "returned" => (next_uid # None /\ next_uid # last_uid)

\* a call returned after discarding a candidate that equalled last_uid
UidReturnedAfterCollision ==
    upc = "returned" /\ collisions = 1 /\ last_uid # None

\* C2: with the clock held and the host and deployment context fixed, the
\* results of a chain of calls, each given the previous result as last_uid,
\* increase strictly; no two of them are equal.
ChainStrictlyIncreasing ==
    \A i \in 1 .. Len(results), j \in 1 .. Len(results) :
        i < j => results[i] < results[j]

\* C5: for a deployment context in 0..15 the four fields of a returned
\* identifier do not overlap: bits 0-7 give the host component, bits 8-11 the
\* deployment context, bits 12-21 the retry index and the bits from 22 up
\* the time component; the same holds of the packing for every retry index
\* in 0..1023.
FieldsDecode ==
    (upc = "returned" /\ deployment_context \in 0 .. 15) =>
        /\ ip_component \in 0 .. 255
        /\ current_index \in 0 .. 1023
        /\ next_uid[1] % 256 = ip_component
        /\ (next_uid[1] \div 256) % 16 = deployment_context
        /\ (next_uid[1] \div 4096) % 1024 = current_index
        /\ next_uid[1] \div 4194304 = time_component
        /\ \A i \in 0 .. 1023 :
             LET uid == JacsUid(time_component, i, deployment_context, ip_component)
             IN /\ uid % 256 = ip_component
                /\ (uid \div 256) % 16 = deployment_context
                /\ (uid \div 4096) % 1024 = i
                /\ uid \div 4194304 = time_component

\* a call returned an identifier whose three low fields are all ones next to
\* each other (host 255, deployment context 15) with retry index 1
FieldsDecodeReached ==
    /\ upc = "returned"
    /\ deployment_context = 15
    /\ ip_component = 255
    /\ current_index = 1
    /\ time_component > 0

\* C6: a call that cannot produce a usable identifier within its budget of
\* max_tries + 1 candidates makes no further attempt: it prints the
\* diagnostic and halts instead of returning a value.
ExhaustionHalts ==
    /\ computations <= max_tries + 1
    /\ (computations = max_tries + 1 /\ ~TruthyInt(next_uid) /\ upc # "loop")
           => (printed /\ upc = "name_error")

\* The branch of lines 123-125 and the exit of lines 126-128 are never
\* taken: the retry index stays below 2 and the loop is left only with a
\* usable identifier.
ExhaustionUnreachable ==
    /\ current_index <= 1
    /\ ~slept
    /\ ~printed
    /\ upc # "name_error"

LastOctet(address) ==
    CASE address = Loopback -> 1
      [] address = << "1", "0", ".", "0", ".", "0", ".", "0" >> -> 0
      [] address = << "1", "9", "2", ".", "1", "6", "8", ".", "1", ".", "1", "7" >> -> 17
      [] address = << "1", "0", ".", "1", ".", "2", ".", "2", "5", "5" >> -> 255

AtMostOneCollision ==
    (upc \in {"loop", "returned"} /\ readings_positive /\ deployment_context >= 0) =>
        /\ current_index <= 1
        /\ collisions <= 1
        /\ collisions = current_index
        /\ ~slept
        /\ computations <= 2
        /\ (computations = 2 => TruthyInt(next_uid))

\* a call returned its second candidate after the clock moved between the
\* two computations
SecondCandidateReturned ==
    /\ upc = "returned"
    /\ readings_positive
    /\ collisions = 1
    /\ computations = 2
    /\ last_uid[1] \div 4194304 # time_component

----------------------------------------------------------------------------
(* get_all_s3_objects: properties *)

\* the entries of the first k responses, in order
RECURSIVE EntriesUpTo(_)
EntriesUpTo(k) ==
    IF k = 0 THEN << >>
    ELSE EntriesUpTo(k - 1) \o
         (IF "Contents" \in DOMAIN pages[k] THEN pages[k]["Contents"] ELSE << >>)

\* C3: while no request fails the consumer receives the entries of the
\* responses in page order and in within-page order, nothing skipped or
\* repeated; the sequence ends cleanly after the response that is not
\* truncated, with all entries delivered and one request for each response.
\* A response without entries contributes nothing.
ListingComplete ==
    raised_at = 0 =>
        /\ Len(yielded) <= Len(EntriesUpTo(served))
        /\ yielded = SubSeq(EntriesUpTo(served), 1, Len(yielded))
        /\ Len(requests) <= Len(pages)
        /\ gstate = "done" =>
              /\ yielded = EntriesUpTo(Len(pages))
              /\ Len(requests) = Len(pages)
              /\ pulls = Len(yielded) + 1
              /\ outcomes[pulls] = "stop"
              /\ \A i \in 1 .. Len(yielded) : outcomes[i] = "entry"

\* three responses, the second without entries, were listed to the end
ListingCompleteReached ==
    /\ gstate = "done"
    /\ Len(pages) = 3
    /\ pages[2]["Contents"] = << >>
    /\ Len(yielded) = 4

\* C4: when the k-th request raises, the consumer has received exactly the
\* entries of responses 1..k-1, the error ends the next() call in progress,
\* and from then on no entry is yielded and no request is issued.
ListFailureSurfaced ==
    raised_at # 0 =>
        /\ gstate = "failed"
        /\ Len(requests) = raised_at
        /\ served = raised_at - 1
        /\ yielded = EntriesUpTo(raised_at - 1)
        /\ pulls = Len(yielded) + 1
        /\ pull_at_request[raised_at] = pulls
        /\ Len(outcomes) = pulls + late_pulls
        /\ outcomes[pulls] = "error"
        /\ \A i \in 1 .. Len(outcomes) :
              /\ i < pulls => outcomes[i] = "entry"
              /\ i > pulls => outcomes[i] = "stop"

\* the second request raised after two entries, and the consumer pulled again
ListFailureReached ==
    raised_at = 2 /\ Len(yielded) = 2 /\ late_pulls = 1

\* every entry of the k-th response has been yielded
FullyYielded(k) ==
    \A j \in 1 .. Len(EntriesUpTo(k)) - Len(EntriesUpTo(k - 1)) :
        \E i \in 1 .. Len(yielded) : yielded[i] = Entry(k, j)

RequestsFollowYields ==
    /\ Len(pull_at_request) = Len(requests)
    /\ \A r \in 1 .. Len(requests) :
          /\ pull_at_request[r] = Len(EntriesUpTo(r - 1)) + 1
          /\ \A k \in 1 .. r - 1 : FullyYielded(k)
    /\ Len(requests) <= 1 + Cardinality({k \in 1 .. served : FullyYielded(k)})

\* C7: request N+1 is issued only during a next() call made after every
\* entry of response N has been yielded, so the requests issued number at
\* most one more than the responses delivered in full; a request is issued
\* only while a next() call is running, never once the consumer has stopped.
LazySequentialRequests ==
    /\ []RequestsFollowYields
    /\ [][Len(requests') # Len(requests) => (gstate = "running" /\ pulls >= 1)]_vars
    /\ [][(gstate \in {"closed", "done", "failed"}) =>
              (requests' = requests /\ gstate' = gstate)]_vars

\* the consumer stopped after the whole first response of a longer listing:
\* the second request was never issued
StoppedAfterFirstPage ==
    /\ gstate = "closed"
    /\ Len(pages) >= 2
    /\ Len(yielded) = 2
    /\ served = 1
    /\ Len(requests) = 1
    /\ late_pulls = 1

\* every request carries page size 1000 and the base parameters unchanged
RequestsKeepBase ==
    \A r \in 1 .. Len(requests) :
        /\ DOMAIN requests[r] \ {"ContinuationToken"} = DOMAIN base_kwargs \cup {"MaxKeys"}
        /\ requests[r]["MaxKeys"] = 1000
        /\ \A key \in DOMAIN base_kwargs : requests[r][key] = base_kwargs[key]

\* C8 as stated: the first request carries no continuation token and every
\* later one carries exactly the next token of the response before it, also
\* when that token is empty (none when the response has none); every request
\* uses page size 1000 and the base parameters.
RequestsCarryReturnedToken ==
    /\ RequestsKeepBase
    /\ \A r \in 1 .. Len(requests) :
          IF r > 1 /\ "NextContinuationToken" \in DOMAIN pages[r - 1]
          THEN /\ "ContinuationToken" \in DOMAIN requests[r]
               /\ requests[r]["ContinuationToken"] = pages[r - 1]["NextContinuationToken"]
          ELSE "ContinuationToken" \notin DOMAIN requests[r]

\* C8 as amended: a later request carries the next token of the response
\* before it when that token is not empty, and no continuation token when
\* the token is absent or empty.
RequestsCarryNonEmptyToken ==
    /\ RequestsKeepBase
    /\ \A r \in 1 .. Len(requests) :
          IF /\ r > 1
             /\ "NextContinuationToken" \in DOMAIN pages[r - 1]
             /\ pages[r - 1]["NextContinuationToken"] # ""
          THEN /\ "ContinuationToken" \in DOMAIN requests[r]
               /\ requests[r]["ContinuationToken"] = pages[r - 1]["NextContinuationToken"]
          ELSE "ContinuationToken" \notin DOMAIN requests[r]

\* three requests were issued: the second after a response with an empty
\* token, the third after a response with a token
TokensCarriedReached ==
    /\ Len(requests) = 3
    /\ "NextContinuationToken" \in DOMAIN pages[1]
    /\ pages[1]["NextContinuationToken"] = ""
    /\ "NextContinuationToken" \in DOMAIN pages[2]
    /\ pages[2]["NextContinuationToken"] = "2"
    /\ "Prefix" \in DOMAIN base_kwargs

=============================================================================
